---- MODULE Spec2Model ----
(***************************************************************************)
(* State-machine model of the HR reference checker (Django project         *)
(* hr_referenceChecker_system).  The state is the content of the database  *)
(* tables Template, Question, Referee, Form, Response and Answer; every    *)
(* action is one model method, view handler or admin operation, taken      *)
(* inside one request and therefore atomically.                            *)
(***************************************************************************)
EXTENDS Naturals, Integers, Sequences, FiniteSets, TLC

(* ------------------------------ bounds -------------------------------- *)
MaxTemplates == 2      \* Template rows ever inserted
MaxQuestions == 4      \* Question rows ever inserted
MaxReferees  == 2      \* Referee rows ever inserted
MaxForms     == 2      \* Form rows ever inserted
MaxTime      == 2      \* last instant of the clock
NumTokens    == 2      \* size of the token space secrets.token_urlsafe draws from
MaxResponses == 2      \* Response rows ever inserted
MaxAnswers   == 3      \* Answer rows ever inserted
AssignedQuestions == 2 \* Question rows ever inserted while forms are being assigned
AssignedReferees == 1  \* Referee rows ever inserted while forms are being assigned

(* ------------------------------ values -------------------------------- *)
Null      == <<>>                 \* SQL NULL / Python None
Some(v)   == <<v>>                \* a non-null column value
NoToken   == ""                   \* blank unique_token of an unsaved Form
Tokens    == {"tok" \o ToString(i) : i \in 1..NumTokens}
PENDING   == "PENDING"
COMPLETED == "COMPLETED"
FormStatus == {PENDING, COMPLETED}
Users     == {"hr", "root"}       \* request.user; "root" is the superuser
is_superuser(u) == u = "root"

VARIABLES
  templates,   \* Template table:  id -> row
  questions,   \* Question table:  id -> row
  referees,    \* Referee table:   id -> row
  forms,       \* Form table:      id -> row
  responses,   \* Response table:  id -> row
  answers,     \* Answer table:    id -> row
  seq,         \* AutoField sequences, one per table (ids are never reused)
  now,         \* timezone.now()
  outcome      \* how the last request ended: "ok" or the error it surfaced

vars == <<templates, questions, referees, forms, responses, answers, seq, now, outcome>>

(* --------------------------- table helpers ---------------------------- *)
EmptyTable == [x \in {} |-> {}]
Insert(tab, id, row) == [x \in DOMAIN tab \cup {id} |-> IF x = id THEN row ELSE tab[x]]
Remove(tab, ids) == [x \in DOMAIN tab \ ids |-> tab[x]]

Max(S) == CHOOSE m \in S : \A x \in S : x <= m

\* ids of a set of naturals as an ascending sequence
RECURSIVE Ascending(_)
Ascending(S) ==
  IF S = {} THEN <<>>
  ELSE LET m == CHOOSE y \in S : \A x \in S : y <= x
       IN <<m>> \o Ascending(S \ {m})

Init ==
  /\ templates = EmptyTable
  /\ questions = EmptyTable
  /\ referees  = EmptyTable
  /\ forms     = EmptyTable
  /\ responses = EmptyTable
  /\ answers   = EmptyTable
  /\ seq = [template |-> 1, question |-> 1, referee |-> 1, form |-> 1,
            response |-> 1, answer |-> 1]
  /\ now = 1
  /\ outcome = "ok"

\* time passes between requests
Tick ==
  /\ now < MaxTime
  /\ now' = now + 1
  /\ UNCHANGED <<templates, questions, referees, forms, responses, answers, seq, outcome>>

(* ----------------- on_delete=CASCADE (Django's collector) ------------- *)
FormsOfTemplates(ftab, tids) == {f \in DOMAIN ftab : ftab[f].template \in tids}
FormsOfReferees(ftab, rids)  == {f \in DOMAIN ftab : ftab[f].referee \in rids}
ResponsesOfForms(rtab, fids) == {r \in DOMAIN rtab : rtab[r].form \in fids}
AnswersOfResponses(atab, rids) == {a \in DOMAIN atab : atab[a].response \in rids}
QuestionsOfTemplate(qtab, tid) == {q \in DOMAIN qtab : qtab[q].template = tid}

\* Form rows deleted, with the Response and Answer rows that cascade from them
CascadeForms(fids) ==
  LET rids == ResponsesOfForms(responses, fids)
      aids == AnswersOfResponses(answers, rids)
  IN /\ forms' = Remove(forms, fids)
     /\ responses' = Remove(responses, rids)
     /\ answers' = Remove(answers, aids)

(* -------------------------------- Form -------------------------------- *)
\* Form.generate_unique_token: secrets.token_urlsafe(32), any value of the token space
Form_generate_unique_token == Tokens

\* a save that draws a new token every time
Form_save_token_Regenerate(row, tok) == [row EXCEPT !.unique_token = tok]

\* Form.save, lines 34-35: a token is generated only when the form has none
Form_save_token(row, tok) ==
  IF row.unique_token = NoToken THEN [row EXCEPT !.unique_token = tok] ELSE row

\* a unique_token column without unique=True
Form_unique_token_ok_NoConstraint(id, row) == TRUE

\* unique_token is unique=True: the INSERT/UPDATE of row `id` is rejected
\* (IntegrityError) when another row already holds the token
Form_unique_token_ok(id, row) ==
  \A g \in DOMAIN forms \ {id} : forms[g].unique_token # row.unique_token

\* Form.save of row `id` (a new id inserts, an existing id updates)
Form_save(id, row, tok) ==
  LET saved == Form_save_token(row, tok)
  IN IF Form_unique_token_ok(id, saved)
     THEN /\ forms' = Insert(forms, id, saved)
          /\ outcome' = "ok"
     ELSE /\ forms' = forms
          /\ outcome' = "IntegrityError: unique_token"

\* a mark_completed that forgets to stamp submitted_at
Form_mark_completed_row_NoStamp(row, time) == [row EXCEPT !.status = COMPLETED]

\* Form.mark_completed, lines 48-49: the two assignments before self.save()
Form_mark_completed_row(row, time) ==
  [row EXCEPT !.status = COMPLETED, !.submitted_at = Some(time)]

\* Form.mark_completed
Form_mark_completed(f, tok) ==
  /\ f \in DOMAIN forms
  /\ Form_save(f, Form_mark_completed_row(forms[f], now), tok)
  /\ UNCHANGED <<templates, questions, referees, responses, answers, seq, now>>

\* FormAdmin add view: template, referee and status are the editable fields,
\* unique_token/created_at/submitted_at are read-only; created_at is auto_now_add
FormAdmin_add(t, r, st, tok) ==
  /\ seq.form <= MaxForms
  /\ t \in DOMAIN templates
  /\ r \in DOMAIN referees
  /\ Form_save(seq.form,
               [template |-> t, referee |-> r, unique_token |-> NoToken,
                status |-> st, created_at |-> now, submitted_at |-> Null], tok)
  /\ seq' = IF outcome' = "ok" THEN [seq EXCEPT !.form = @ + 1] ELSE seq
  /\ UNCHANGED <<templates, questions, referees, responses, answers, now>>

\* FormAdmin change view: the same three fields can be edited on a saved form
FormAdmin_change(f, t, r, st, tok) ==
  /\ f \in DOMAIN forms
  /\ t \in DOMAIN templates
  /\ r \in DOMAIN referees
  /\ Form_save(f, [forms[f] EXCEPT !.template = t, !.referee = r, !.status = st], tok)
  /\ UNCHANGED <<templates, questions, referees, responses, answers, seq, now>>

\* FormAdmin.has_delete_permission: a COMPLETED form cannot be deleted
FormAdmin_has_delete_permission(f) == forms[f].status # COMPLETED

\* ResponseAdmin / AnswerAdmin.has_delete_permission: superusers only
ResponseAdmin_has_delete_permission(user) == is_superuser(user)
AnswerAdmin_has_delete_permission(user) == is_superuser(user)

\* The admin delete views refuse when the user lacks the delete permission on a
\* row the deletion would cascade to (each registered admin is asked per row)
AdminMayDeleteForms(user, fids) ==
  LET rids == ResponsesOfForms(responses, fids)
      aids == AnswersOfResponses(answers, rids)
  IN /\ \A f \in fids : FormAdmin_has_delete_permission(f)
     /\ rids # {} => ResponseAdmin_has_delete_permission(user)
     /\ aids # {} => AnswerAdmin_has_delete_permission(user)

\* FormAdmin delete view; Response.form and Answer.response cascade
FormAdmin_delete(user, f) ==
  /\ f \in DOMAIN forms
  /\ AdminMayDeleteForms(user, {f})
  /\ CascadeForms({f})
  /\ outcome' = "ok"
  /\ UNCHANGED <<templates, questions, referees, seq, now>>

(* ------------------------- JSONField values --------------------------- *)
\* choices and rating_labels are JSONFields: a list, a dict (kept as the flat
\* sequence key, value, key, value, ...) or a JSON string
JList(items) == [kind |-> "list", items |-> items]
JDict(items) == [kind |-> "dict", items |-> items]
JStr(str)    == [kind |-> "str", items |-> <<str>>]
\* Python truthiness of a JSON value
Truthy(j) == IF j.kind = "str" THEN j.items # <<"">> ELSE j.items # <<>>
\* list and dict have .copy(); str has not (AttributeError)
HasCopy(j) == j.kind \in {"list", "dict"}

(* ------------------------------ Question ------------------------------ *)
QuestionType == {"TEXT", "TEXTAREA", "SELECT", "RADIO", "CHECKBOX", "RATING",
                 "DATE", "EMAIL", "PHONE"}
ChoiceTypes == {"SELECT", "RADIO", "CHECKBOX"}

\* field defaults of the Question model
QuestionDefaults ==
  [question_text |-> "", question_type |-> "TEXT", is_required |-> TRUE,
   order |-> 0, choices |-> JList(<<>>), rating_scale |-> 5,
   rating_labels |-> JDict(<<>>), max_length |-> Null, placeholder |-> "",
   help_text |-> ""]

\* Question(template=t, **data): the given fields, defaults for the others
NewQuestion(t, data) ==
  [k \in DOMAIN QuestionDefaults \cup {"template"} |->
     IF k = "template" THEN t
     ELSE IF k \in DOMAIN data THEN data[k] ELSE QuestionDefaults[k]]

\* a save that stores the order it is given
Question_save_order_Keep(qtab, row) == row.order

\* the order Question.save stores for `row` saved as row `id` of table qtab:
\* a falsy order becomes (largest order of the template's stored questions) + 1
Question_save_order(qtab, row) ==
  IF row.order = 0
  THEN LET others == QuestionsOfTemplate(qtab, row.template)
       IN IF others = {} THEN 1
          ELSE Max({qtab[q].order : q \in others}) + 1
  ELSE row.order

\* Question.save: the table after saving `row` as row `id`
Question_save(qtab, id, row) ==
  Insert(qtab, id, [row EXCEPT !.order = Question_save_order(qtab, row)])

\* Meta.ordering = ['order', 'created_at']: the template's questions in that
\* order (rows are created in id order)
RECURSIVE OrderedQuestions(_, _)
OrderedQuestions(qtab, qids) ==
  IF qids = {} THEN <<>>
  ELSE LET first == CHOOSE q \in qids : \A o \in qids :
                      \/ qtab[q].order < qtab[o].order
                      \/ (qtab[q].order = qtab[o].order /\ q <= o)
       IN <<first>> \o OrderedQuestions(qtab, qids \ {first})

\* Question.duplicate raises AttributeError on a truthy value without .copy()
Question_duplicate_raises(row) ==
  \/ Truthy(row.choices) /\ ~HasCopy(row.choices)
  \/ Truthy(row.rating_labels) /\ ~HasCopy(row.rating_labels)

\* Question.duplicate: the row handed to Question.objects.create
Question_duplicate(row, new_template) ==
  [template      |-> new_template,
   question_text |-> row.question_text,
   question_type |-> row.question_type,
   is_required   |-> row.is_required,
   order         |-> row.order,
   choices       |-> IF Truthy(row.choices) THEN row.choices ELSE JList(<<>>),
   rating_scale  |-> row.rating_scale,
   rating_labels |-> IF Truthy(row.rating_labels) THEN row.rating_labels ELSE JDict(<<>>),
   max_length    |-> row.max_length,
   placeholder   |-> row.placeholder,
   help_text     |-> row.help_text]

(* ------------------------------ Template ------------------------------ *)
\* a title is a string, kept as its sequence of characters
CopySuffix == <<" ", "(", "C", "o", "p", "y", ")">>      \* " (Copy)"
UpperCase == <<"A","B","C","D","E","F","G","H","I","J","K","L","M",
               "N","O","P","Q","R","S","T","U","V","W","X","Y","Z">>
LowerCase == <<"a","b","c","d","e","f","g","h","i","j","k","l","m",
               "n","o","p","q","r","s","t","u","v","w","x","y","z">>
\* str.lower() / the case folding of title__iexact
LowerChar(c) ==
  IF \E i \in 1..Len(UpperCase) : UpperCase[i] = c
  THEN LowerCase[CHOOSE i \in 1..Len(UpperCase) : UpperCase[i] = c]
  ELSE c
Lower(str) == [i \in 1..Len(str) |-> LowerChar(str[i])]

\* add_question that numbers every question without 'order' as the first
Template_add_question_data_First(qtab, t, question_data) ==
  IF "order" \in DOMAIN question_data THEN question_data
  ELSE [k \in DOMAIN question_data \cup {"order"} |->
          IF k = "order" THEN 1 ELSE question_data[k]]

\* Template.add_question: order is computed when question_data has no 'order'
Template_add_question_data(qtab, t, question_data) ==
  IF "order" \in DOMAIN question_data THEN question_data
  ELSE LET mine == QuestionsOfTemplate(qtab, t)
           ord == IF mine = {} THEN 1 ELSE Max({qtab[q].order : q \in mine}) + 1
       IN [k \in DOMAIN question_data \cup {"order"} |->
             IF k = "order" THEN ord ELSE question_data[k]]

Template_add_question(t, question_data) ==
  /\ t \in DOMAIN templates
  /\ seq.question <= MaxQuestions
  /\ questions' = Question_save(questions, seq.question,
                    NewQuestion(t, Template_add_question_data(questions, t, question_data)))
  /\ seq' = [seq EXCEPT !.question = @ + 1]
  /\ outcome' = "ok"
  /\ UNCHANGED <<templates, referees, forms, responses, answers, now>>

\* Template.remove_question: self.questions.filter(id=question_id).delete()
Template_remove_question(t, question_id) ==
  /\ t \in DOMAIN templates
  /\ questions' = Remove(questions, {q \in QuestionsOfTemplate(questions, t) : q = question_id})
  /\ outcome' = "ok"
  /\ UNCHANGED <<templates, referees, forms, responses, answers, seq, now>>

\* the loop of Template.duplicate over self.questions.all(): the question table,
\* the next question id and whether a question.duplicate raised
RECURSIVE DuplicateQuestions(_, _, _, _)
DuplicateQuestions(qtab, todo, new_template, next) ==
  IF todo = <<>> THEN [qtab |-> qtab, next |-> next, raised |-> FALSE]
  ELSE IF Question_duplicate_raises(qtab[Head(todo)])
       THEN [qtab |-> qtab, next |-> next, raised |-> TRUE]
       ELSE DuplicateQuestions(
              Question_save(qtab, next, Question_duplicate(qtab[Head(todo)], new_template)),
              Tail(todo), new_template, next + 1)

\* a duplicate that carries the original's is_active over
Template_duplicate_row_KeepActive(t, new_title, new_user) ==
  [title        |-> IF new_title = Null \/ new_title = Some(<<>>)
                    THEN templates[t].title \o CopySuffix ELSE new_title[1],
   description  |-> templates[t].description,
   instructions |-> templates[t].instructions,
   created_by   |-> IF new_user = Null THEN templates[t].created_by ELSE new_user[1],
   is_active    |-> templates[t].is_active]

\* the row Template.duplicate creates; new_title/new_user may be None (Null)
Template_duplicate_row(t, new_title, new_user) ==
  [title        |-> IF new_title = Null \/ new_title = Some(<<>>)
                    THEN templates[t].title \o CopySuffix ELSE new_title[1],
   description  |-> templates[t].description,
   instructions |-> templates[t].instructions,
   created_by   |-> IF new_user = Null THEN templates[t].created_by ELSE new_user[1],
   is_active    |-> FALSE]

\* what Template.duplicate writes, statement by statement (no transaction of
\* its own: what was created before an exception stays)
Template_duplicate_effect(t, new_title, new_user) ==
  LET new_template == seq.template
      res == DuplicateQuestions(questions,
                                OrderedQuestions(questions, QuestionsOfTemplate(questions, t)),
                                new_template, seq.question)
  IN [templates |-> Insert(templates, new_template, Template_duplicate_row(t, new_title, new_user)),
      questions |-> res.qtab,
      seq       |-> [seq EXCEPT !.template = @ + 1, !.question = res.next],
      raised    |-> res.raised]

\* room in the id space for a copy of template t
RoomToDuplicate(t) ==
  /\ seq.template <= MaxTemplates
  /\ seq.question + Cardinality(QuestionsOfTemplate(questions, t)) <= MaxQuestions + 1

\* Template.duplicate called as a model method
Template_duplicate(t, new_title, new_user) ==
  /\ t \in DOMAIN templates
  /\ RoomToDuplicate(t)
  /\ LET eff == Template_duplicate_effect(t, new_title, new_user)
     IN /\ templates' = eff.templates
        /\ questions' = eff.questions
        /\ seq' = eff.seq
        /\ outcome' = IF eff.raised THEN "AttributeError" ELSE "ok"
  /\ UNCHANGED <<referees, forms, responses, answers, now>>

\* a duplicate view without transaction.atomic(): what Template.duplicate
\* wrote before the exception stays
TemplateDuplicateView_post_NoAtomic(user, t, new_title) ==
  /\ t \in DOMAIN templates
  /\ RoomToDuplicate(t)
  /\ LET title == IF new_title = Null \/ new_title = Some(<<>>)
                  THEN Some(templates[t].title \o CopySuffix) ELSE new_title
         eff == Template_duplicate_effect(t, title, Some(user))
     IN /\ templates' = eff.templates
        /\ questions' = eff.questions
        /\ seq' = eff.seq
        /\ outcome' = IF eff.raised THEN "error: redirect to detail" ELSE "ok"
  /\ UNCHANGED <<referees, forms, responses, answers, now>>

\* TemplateDuplicateView.post: duplicate inside transaction.atomic(); an
\* exception rolls everything back and redirects to the original's detail page
TemplateDuplicateView_post(user, t, new_title) ==
  /\ t \in DOMAIN templates
  /\ RoomToDuplicate(t)
  /\ LET title == IF new_title = Null \/ new_title = Some(<<>>)
                  THEN Some(templates[t].title \o CopySuffix) ELSE new_title
         eff == Template_duplicate_effect(t, title, Some(user))
     IN IF eff.raised
        THEN /\ UNCHANGED <<templates, questions, seq>>
             /\ outcome' = "error: redirect to detail"
        ELSE /\ templates' = eff.templates
             /\ questions' = eff.questions
             /\ seq' = eff.seq
             /\ outcome' = "ok"
  /\ UNCHANGED <<referees, forms, responses, answers, now>>

\* Template.delete(): Question.template and Form.template are on_delete=CASCADE
Template_delete(t) ==
  /\ templates' = Remove(templates, {t})
  /\ questions' = Remove(questions, QuestionsOfTemplate(questions, t))
  /\ CascadeForms(FormsOfTemplates(forms, {t}))

\* TemplateDeleteView.delete: counts the assigned forms, then deletes anyway
TemplateDeleteView_delete(t) ==
  /\ t \in DOMAIN templates
  /\ Template_delete(t)
  /\ outcome' = "ok"
  /\ UNCHANGED <<referees, seq, now>>

\* TemplateAdmin.has_delete_permission: not while forms are assigned
TemplateAdmin_has_delete_permission(t) == FormsOfTemplates(forms, {t}) = {}

\* TemplateAdmin delete view
TemplateAdmin_delete(t) ==
  /\ t \in DOMAIN templates
  /\ TemplateAdmin_has_delete_permission(t)
  /\ Template_delete(t)
  /\ outcome' = "ok"
  /\ UNCHANGED <<referees, seq, now>>

(* ------------------- TemplateForm / QuestionFormSet ------------------- *)
\* TemplateForm.clean_title: no other ACTIVE template has the title, ignoring case
TemplateForm_clean_title(title, self) ==
  \A o \in DOMAIN templates \ self :
    ~(Lower(templates[o].title) = Lower(title) /\ templates[o].is_active)

\* a bound TemplateForm is valid: title of 3..255 characters that passes clean_title
TemplateForm_is_valid(title, self) ==
  /\ Len(title) >= 3
  /\ Len(title) <= 255
  /\ TemplateForm_clean_title(title, self)

\* choice.strip() on one line of choices_text
Strip(line) == IF line = " " THEN "" ELSE line

\* [choice.strip() for choice in choices_text.split('\n') if choice.strip()],
\* choices_text given as its lines
ChoicesFromText(lines) ==
  SelectSeq([i \in 1..Len(lines) |-> Strip(lines[i])], LAMBDA c : c # "")

\* Question.set_choices_from_text
Question_set_choices_from_text(lines) ==
  IF ChoicesFromText(lines) # <<>> THEN JList(ChoicesFromText(lines)) ELSE JList(<<>>)

\* Question.get_choices_as_text, as lines
Question_get_choices_as_text(row) ==
  IF row.choices.kind = "list" THEN row.choices.items ELSE <<>>

\* QuestionForm.clean and the field validators: one bound QuestionForm is valid
QuestionForm_is_valid(fd) ==
  /\ Len(fd.question_text) >= 5
  /\ fd.question_type \in QuestionType
  /\ fd.order >= 0
  /\ fd.rating_scale >= 0
  /\ fd.question_type \in ChoiceTypes => Len(ChoicesFromText(fd.choices_text)) >= 2

\* QuestionForm.save(commit=False) on `row`, before instance.save()
QuestionForm_save(row, fd) ==
  LET inst == [row EXCEPT !.question_text = fd.question_text,
                          !.question_type = fd.question_type,
                          !.is_required = fd.is_required,
                          !.order = fd.order,
                          !.rating_scale = fd.rating_scale,
                          !.help_text = fd.help_text]
  IN IF ChoicesFromText(fd.choices_text) # <<>> /\ inst.question_type \in ChoiceTypes
     THEN [inst EXCEPT !.choices = Question_set_choices_from_text(fd.choices_text)]
     ELSE IF inst.question_type \notin ChoiceTypes
          THEN [inst EXCEPT !.choices = JList(<<>>)]
          ELSE inst

\* a form of the formset is bound to a stored question of the template or is new
FormTargetOk(t, fd) ==
  fd.id = Null \/ (fd.id[1] \in QuestionsOfTemplate(questions, t))

\* form.has_changed() for a form bound to stored question `row`
QuestionForm_has_changed(row, fd) ==
  \/ row.question_text # fd.question_text
  \/ row.question_type # fd.question_type
  \/ row.is_required # fd.is_required
  \/ row.order # fd.order
  \/ row.rating_scale # fd.rating_scale
  \/ row.help_text # fd.help_text
  \/ (IF Truthy(row.choices) THEN Question_get_choices_as_text(row) ELSE <<>>) # fd.choices_text

\* QuestionFormSet.is_valid (min_num=1, validate_min): the forms not marked for
\* deletion are valid and at least one of them remains
QuestionFormSet_is_valid(t, qforms) ==
  /\ \A i \in 1..Len(qforms) : FormTargetOk(t, qforms[i])
  /\ \A i \in 1..Len(qforms) : ~qforms[i].DELETE => QuestionForm_is_valid(qforms[i])
  /\ Cardinality({i \in 1..Len(qforms) : ~qforms[i].DELETE}) >= 1

\* QuestionFormSet.save: stored questions first (delete or update), then the
\* new ones; the resulting table and next question id
RECURSIVE FormSetSaveExisting(_, _)
FormSetSaveExisting(qtab, qforms) ==
  IF qforms = <<>> THEN qtab
  ELSE LET fd == Head(qforms)
       IN IF fd.id = Null THEN FormSetSaveExisting(qtab, Tail(qforms))
          ELSE IF fd.DELETE
               THEN FormSetSaveExisting(Remove(qtab, {fd.id[1]}), Tail(qforms))
               ELSE IF QuestionForm_has_changed(qtab[fd.id[1]], fd)
                    THEN FormSetSaveExisting(
                           Question_save(qtab, fd.id[1], QuestionForm_save(qtab[fd.id[1]], fd)),
                           Tail(qforms))
                    ELSE FormSetSaveExisting(qtab, Tail(qforms))

RECURSIVE FormSetSaveNew(_, _, _, _)
FormSetSaveNew(qtab, t, qforms, next) ==
  IF qforms = <<>> THEN [qtab |-> qtab, next |-> next]
  ELSE LET fd == Head(qforms)
       IN IF fd.id # Null \/ fd.DELETE
          THEN FormSetSaveNew(qtab, t, Tail(qforms), next)
          ELSE FormSetSaveNew(
                 Question_save(qtab, next, QuestionForm_save(NewQuestion(t, <<>>), fd)),
                 t, Tail(qforms), next + 1)

QuestionFormSet_save(qtab, t, qforms, next) ==
  FormSetSaveNew(FormSetSaveExisting(qtab, qforms), t, qforms, next)

NewForms(qforms) == Cardinality({i \in 1..Len(qforms) : qforms[i].id = Null /\ ~qforms[i].DELETE})

\* TemplateCreateView.form_valid: the template is saved first; an invalid
\* formset returns form_invalid from inside the atomic block (no exception)
TemplateCreateView_form_valid(user, title, description, instructions, active, qforms) ==
  /\ seq.template <= MaxTemplates
  /\ seq.question + NewForms(qforms) <= MaxQuestions + 1
  /\ TemplateForm_is_valid(title, {})
  /\ \A i \in 1..Len(qforms) : qforms[i].id = Null
  /\ templates' = Insert(templates, seq.template,
                         [title |-> title, description |-> description,
                          instructions |-> instructions, created_by |-> user,
                          is_active |-> active])
  /\ IF QuestionFormSet_is_valid(seq.template, qforms)
     THEN LET res == QuestionFormSet_save(questions, seq.template, qforms, seq.question)
          IN /\ questions' = res.qtab
             /\ seq' = [seq EXCEPT !.template = @ + 1, !.question = res.next]
             /\ outcome' = "ok"
     ELSE /\ questions' = questions
          /\ seq' = [seq EXCEPT !.template = @ + 1]
          /\ outcome' = "form errors"
  /\ UNCHANGED <<referees, forms, responses, answers, now>>

\* TemplateUpdateView.form_valid: same shape on a stored template
TemplateUpdateView_form_valid(t, title, description, instructions, active, qforms) ==
  /\ t \in DOMAIN templates
  /\ seq.question + NewForms(qforms) <= MaxQuestions + 1
  /\ TemplateForm_is_valid(title, {t})
  /\ templates' = [templates EXCEPT ![t].title = title, ![t].description = description,
                                    ![t].instructions = instructions, ![t].is_active = active]
  /\ IF QuestionFormSet_is_valid(t, qforms)
     THEN LET res == QuestionFormSet_save(questions, t, qforms, seq.question)
          IN /\ questions' = res.qtab
             /\ seq' = [seq EXCEPT !.question = res.next]
             /\ outcome' = "ok"
     ELSE /\ questions' = questions
          /\ seq' = seq
          /\ outcome' = "form errors"
  /\ UNCHANGED <<referees, forms, responses, answers, now>>

\* QuestionAdmin change view: choices and rating_labels are edited as raw JSON
QuestionAdmin_change(q, choices, rating_labels) ==
  /\ q \in DOMAIN questions
  /\ questions' = Question_save(questions, q,
                    [questions[q] EXCEPT !.choices = choices, !.rating_labels = rating_labels])
  /\ outcome' = "ok"
  /\ UNCHANGED <<templates, referees, forms, responses, answers, seq, now>>

(* ------------------------------ Referee ------------------------------- *)
Emails == {"a@x.org"}

\* RefereeForm.clean_email: the email is free among the other active referees
RefereeForm_clean_email(email, self) ==
  \A r \in DOMAIN referees \ self :
    ~(referees[r].email = email /\ referees[r].is_active)

\* RefereeCreateView: a valid RefereeForm is saved as a new row
RefereeCreateView_form_valid(email, active) ==
  /\ seq.referee <= MaxReferees
  /\ RefereeForm_clean_email(email, {})
  /\ referees' = Insert(referees, seq.referee,
                        [name |-> "Ann", email |-> email, phone |-> "",
                         relationship |-> "Manager", applicant_name |-> "Bob",
                         is_active |-> active])
  /\ seq' = [seq EXCEPT !.referee = @ + 1]
  /\ outcome' = "ok"
  /\ UNCHANGED <<templates, questions, forms, responses, answers, now>>

\* a referee delete view that keeps DeleteView's row deletion
RefereeDeleteView_delete_Hard(r) ==
  /\ r \in DOMAIN referees
  /\ referees' = Remove(referees, {r})
  /\ CascadeForms(FormsOfReferees(forms, {r}))
  /\ outcome' = "ok"
  /\ UNCHANGED <<templates, questions, seq, now>>

\* RefereeDeleteView.delete: soft delete
RefereeDeleteView_delete(r) ==
  /\ r \in DOMAIN referees
  /\ referees' = [referees EXCEPT ![r].is_active = FALSE]
  /\ outcome' = "ok"
  /\ UNCHANGED <<templates, questions, forms, responses, answers, seq, now>>

\* RefereeAdmin keeps ModelAdmin's delete: the row goes, and Form.referee
\* (on_delete=CASCADE) takes the referee's forms, responses and answers along
RefereeAdmin_delete(user, r) ==
  /\ r \in DOMAIN referees
  /\ AdminMayDeleteForms(user, FormsOfReferees(forms, {r}))
  /\ referees' = Remove(referees, {r})
  /\ CascadeForms(FormsOfReferees(forms, {r}))
  /\ outcome' = "ok"
  /\ UNCHANGED <<templates, questions, seq, now>>

(* ------------------------- Response and Answer ------------------------ *)
\* Response.form as a plain ForeignKey
Response_form_unique_ok_ForeignKey(f) == TRUE

\* Response.form is a OneToOneField: the INSERT is rejected when the form
\* already has a Response
Response_form_unique_ok(f) == \A r \in DOMAIN responses : responses[r].form # f

\* Answer without unique_together
Answer_unique_ok_NoConstraint(atab, r, question_id) == TRUE

\* Answer.Meta.unique_together = ['response', 'question_id']
Answer_unique_ok(atab, r, question_id) ==
  \A a \in DOMAIN atab : ~(atab[a].response = r /\ atab[a].question_id = question_id)

\* one Answer row per question of `todo`, created in order; a rejected INSERT
\* raises IntegrityError
RECURSIVE CreateAnswers(_, _, _, _, _)
CreateAnswers(atab, r, todo, value, next) ==
  IF todo = <<>> THEN [atab |-> atab, next |-> next, raised |-> FALSE]
  ELSE IF ~Answer_unique_ok(atab, r, Head(todo))
       THEN [atab |-> atab, next |-> next, raised |-> TRUE]
       ELSE CreateAnswers(
              Insert(atab, next,
                     [response |-> r, question_id |-> Head(todo),
                      question_type |-> questions[Head(todo)].question_type,
                      answer_value |-> value, created_at |-> now]),
              r, Tail(todo), value, next + 1)

\* Submission of a form by the referee: one request-scoped transaction that
\* creates the Response, one Answer per posted question id, and marks the form
\* completed.  A rejected INSERT aborts the whole request.
SubmitForm(f, posted, value, tok) ==
  /\ f \in DOMAIN forms
  /\ forms[f].status = PENDING
  /\ seq.response <= MaxResponses
  /\ seq.answer + Len(posted) <= MaxAnswers + 1
  /\ LET res == CreateAnswers(answers, seq.response, posted, value, seq.answer)
     IN IF ~Response_form_unique_ok(f)
        THEN /\ UNCHANGED <<responses, answers, seq, forms>>
             /\ outcome' = "IntegrityError: response"
        ELSE IF res.raised
             THEN /\ UNCHANGED <<responses, answers, seq, forms>>
                  /\ outcome' = "IntegrityError: answer"
             ELSE /\ responses' = Insert(responses, seq.response,
                                         [form |-> f, submitted_at |-> now, metadata |-> <<>>])
                  /\ answers' = res.atab
                  /\ seq' = [seq EXCEPT !.response = @ + 1, !.answer = res.next]
                  /\ Form_save(f, Form_mark_completed_row(forms[f], now), tok)
  /\ UNCHANGED <<templates, questions, referees, now>>

\* what a referee can post for form f: an answer to every question of the
\* form's template, in order, possibly with one question id repeated
PostedAnswers(f) ==
  LET qs == OrderedQuestions(questions, QuestionsOfTemplate(questions, forms[f].template))
  IN {qs} \cup {qs \o <<qs[i]>> : i \in 1..Len(qs)}

\* ResponseAdmin delete view (superuser only); Answer.response cascades
ResponseAdmin_delete(user, r) ==
  /\ r \in DOMAIN responses
  /\ ResponseAdmin_has_delete_permission(user)
  /\ AnswersOfResponses(answers, {r}) # {} => AnswerAdmin_has_delete_permission(user)
  /\ responses' = Remove(responses, {r})
  /\ answers' = Remove(answers, AnswersOfResponses(answers, {r}))
  /\ outcome' = "ok"
  /\ UNCHANGED <<templates, questions, referees, forms, seq, now>>

\* AnswerAdmin delete view (superuser only)
AnswerAdmin_delete(user, a) ==
  /\ a \in DOMAIN answers
  /\ AnswerAdmin_has_delete_permission(user)
  /\ answers' = Remove(answers, {a})
  /\ outcome' = "ok"
  /\ UNCHANGED <<templates, questions, referees, forms, responses, seq, now>>

(* ------------------------------ inputs -------------------------------- *)
TitleRef == <<"R", "e", "f">>
NewQuestionForm(text, type, order, lines) ==
  [id |-> Null, DELETE |-> FALSE, question_text |-> text, question_type |-> type,
   is_required |-> TRUE, order |-> order, rating_scale |-> 5, help_text |-> "",
   choices_text |-> lines]
FormText  == NewQuestionForm("Describe the role", "TEXT", 0, <<>>)
FormRadio == NewQuestionForm("Would you rehire?", "RADIO", 1, <<"Yes", " ", "No">>)
FormBad   == NewQuestionForm("Would you rehire?", "RADIO", 1, <<"Yes">>)

\* the form that resubmits stored question q unchanged, or marks it for deletion
BoundForm(q, delete) ==
  [id |-> Some(q), DELETE |-> delete,
   question_text |-> questions[q].question_text,
   question_type |-> questions[q].question_type,
   is_required |-> questions[q].is_required, order |-> questions[q].order,
   rating_scale |-> questions[q].rating_scale, help_text |-> questions[q].help_text,
   choices_text |-> IF Truthy(questions[q].choices)
                    THEN Question_get_choices_as_text(questions[q]) ELSE <<>>]

\* formsets posted to the update view of template t: each stored question is
\* kept or deleted, and at most one new form is appended
UpdateFormSets(t, newforms) ==
  LET qs == Ascending(QuestionsOfTemplate(questions, t))
  IN {[i \in 1..Len(qs) |-> BoundForm(qs[i], qs[i] \in del)] \o extra :
        del \in SUBSET QuestionsOfTemplate(questions, t),
        extra \in {<<>>} \cup {<<nf>> : nf \in newforms}}

(* ------------------- the application's request cycle ------------------ *)
Next ==
  \/ Tick
  \/ \E qforms \in {<<FormText>>} :
       /\ seq.question + NewForms(qforms) <= AssignedQuestions + 1
       /\ TemplateCreateView_form_valid("hr", TitleRef, "", "", TRUE, qforms)
  \/ \E t \in DOMAIN templates : \E qforms \in UpdateFormSets(t, {FormText}) :
       /\ seq.question + NewForms(qforms) <= AssignedQuestions + 1
       /\ TemplateUpdateView_form_valid(t, templates[t].title, "", "",
                                        templates[t].is_active, qforms)
  \/ \E t \in DOMAIN templates, q \in DOMAIN questions : Template_remove_question(t, q)
  \/ \E t \in DOMAIN templates : TemplateDeleteView_delete(t)
  \/ \E t \in DOMAIN templates : TemplateAdmin_delete(t)
  \/ \E email \in Emails :
       /\ seq.referee <= AssignedReferees
       /\ RefereeCreateView_form_valid(email, TRUE)
  \/ \E r \in DOMAIN referees : RefereeDeleteView_delete(r)
  \/ \E u \in Users, r \in DOMAIN referees : RefereeAdmin_delete(u, r)
  \/ \E t \in DOMAIN templates, r \in DOMAIN referees, st \in FormStatus,
        tok \in Form_generate_unique_token : FormAdmin_add(t, r, st, tok)
  \/ \E f \in DOMAIN forms, t \in DOMAIN templates, r \in DOMAIN referees,
        st \in FormStatus, tok \in Form_generate_unique_token :
       FormAdmin_change(f, t, r, st, tok)
  \/ \E u \in Users, f \in DOMAIN forms : FormAdmin_delete(u, f)
  \/ \E f \in DOMAIN forms, tok \in Form_generate_unique_token : Form_mark_completed(f, tok)
  \/ \E f \in DOMAIN forms, tok \in Form_generate_unique_token :
       \E posted \in PostedAnswers(f) : SubmitForm(f, posted, "yes", tok)
  \/ \E u \in Users, r \in DOMAIN responses : ResponseAdmin_delete(u, r)
  \/ \E u \in Users, a \in DOMAIN answers : AnswerAdmin_delete(u, a)

Spec == Init /\ [][Next]_vars

(* ---------------- template management (no forms assigned) ------------- *)
TitleNew == <<"N", "e", "w">>
\* new_title / new_user handed to Template.duplicate; request.POST['new_title']
NewTitles == {Null, Some(<<>>), Some(TitleNew)}
NewUsers  == {Null, Some("root")}
\* question_data handed to Template.add_question
QuestionData ==
  {[question_text |-> "Rate the candidate", question_type |-> "RATING",
    rating_scale |-> 5, rating_labels |-> JDict(<<"1", "Poor", "5", "Excellent">>),
    max_length |-> Some(200), placeholder |-> "1-5", help_text |-> "1 is lowest"],
   [question_text |-> "Would you rehire?", question_type |-> "SELECT",
    is_required |-> FALSE, order |-> 0, choices |-> JList(<<"Yes", "No">>)]}
\* JSON typed into the choices / rating_labels fields of the Question admin
\* <<choices, rating_labels>>
AdminJSON == {<<JDict(<<>>), JList(<<>>)>>, <<JStr("Yes"), JDict(<<"1", "Poor">>)>>}

NextTemplates ==
  \/ \E qforms \in {<<FormRadio>>, <<FormBad>>} :
       TemplateCreateView_form_valid("hr", TitleRef, "About the applicant", "Be candid",
                                     TRUE, qforms)
  \/ \E t \in DOMAIN templates, data \in QuestionData : Template_add_question(t, data)
  \/ \E t \in DOMAIN templates, q \in DOMAIN questions : Template_remove_question(t, q)
  \/ \E q \in DOMAIN questions, json \in AdminJSON :
       QuestionAdmin_change(q, json[1], json[2])
  \/ \E t \in DOMAIN templates, nt \in NewTitles, nu \in NewUsers : Template_duplicate(t, nt, nu)
  \/ \E u \in Users, t \in DOMAIN templates, nt \in NewTitles :
       TemplateDuplicateView_post(u, t, nt)
  \/ \E t \in DOMAIN templates : TemplateDeleteView_delete(t)

SpecTemplates == Init /\ [][NextTemplates]_vars

(* ------------------- template titles (C11) ---------------------------- *)
\* TemplateAdmin change view: the admin's own ModelForm (model validators only,
\* no clean_title) saves title, description, instructions and is_active
TemplateAdmin_change(t, title, description, instructions, active) ==
  /\ t \in DOMAIN templates
  /\ Len(title) >= 3
  /\ Len(title) <= 255
  /\ templates' = [templates EXCEPT ![t].title = title, ![t].description = description,
                                    ![t].instructions = instructions, ![t].is_active = active]
  /\ outcome' = "ok"
  /\ UNCHANGED <<questions, referees, forms, responses, answers, seq, now>>

TitleREF == <<"R", "E", "F">>
Titles == {TitleRef, TitleREF, TitleNew}

\* the question forms of template t posted back unchanged
UnchangedFormSet(t) ==
  LET qs == OrderedQuestions(questions, QuestionsOfTemplate(questions, t))
  IN [i \in 1..Len(qs) |-> BoundForm(qs[i], FALSE)]

\* question formsets posted with a new template: a valid and an invalid one
CreateFormSets == {<<FormText>>, <<FormBad>>}
\* posted with a stored template: its questions unchanged, alone or followed by
\* an invalid new question form
EditFormSets(t) == {UnchangedFormSet(t), UnchangedFormSet(t) \o <<FormBad>>}

NextTitles ==
  \/ \E title \in Titles, active \in BOOLEAN, qforms \in CreateFormSets :
       TemplateCreateView_form_valid("hr", title, "", "", active, qforms)
  \/ \E t \in DOMAIN templates, title \in Titles, active \in BOOLEAN :
       \E qforms \in EditFormSets(t) :
         TemplateUpdateView_form_valid(t, title, "", "", active, qforms)
  \/ \E t \in DOMAIN templates, title \in Titles, active \in BOOLEAN :
       TemplateAdmin_change(t, title, "", "", active)
  \/ \E t \in DOMAIN templates, nt \in {Null} \cup {Some(x) : x \in Titles} :
       Template_duplicate(t, nt, Null)
  \/ \E u \in Users, t \in DOMAIN templates, nt \in {Null} \cup {Some(x) : x \in Titles} :
       TemplateDuplicateView_post(u, t, nt)
  \/ \E t \in DOMAIN templates : TemplateDeleteView_delete(t)

SpecTitles == Init /\ [][NextTitles]_vars

(* ------------------- referee emails (C12) ----------------------------- *)
\* RefereeUpdateView: a valid RefereeForm bound to a stored referee is saved
RefereeUpdateView_form_valid(r, email, active) ==
  /\ r \in DOMAIN referees
  /\ RefereeForm_clean_email(email, {r})
  /\ referees' = [referees EXCEPT ![r].email = email, ![r].is_active = active]
  /\ outcome' = "ok"
  /\ UNCHANGED <<templates, questions, forms, responses, answers, seq, now>>

\* Referee.update_contact(email=None, phone=None): truthy arguments are stored
Referee_update_contact(r, email, phone) ==
  /\ r \in DOMAIN referees
  /\ referees' = [referees EXCEPT
                    ![r].email = IF email # Null /\ email # Some("") THEN email[1] ELSE @,
                    ![r].phone = IF phone # Null /\ phone # Some("") THEN phone[1] ELSE @]
  /\ outcome' = "ok"
  /\ UNCHANGED <<templates, questions, forms, responses, answers, seq, now>>

\* RefereeAdmin: the change view edits email and is_active, the change list
\* edits is_active (list_editable); both save through the admin's ModelForm
RefereeAdmin_change(r, email, active) ==
  /\ r \in DOMAIN referees
  /\ referees' = [referees EXCEPT ![r].email = email, ![r].is_active = active]
  /\ outcome' = "ok"
  /\ UNCHANGED <<templates, questions, forms, responses, answers, seq, now>>

RefereeEmails == {"a@x.org", "b@x.org", "c@x.org"}

NextReferees ==
  \/ \E email \in RefereeEmails, active \in BOOLEAN : RefereeCreateView_form_valid(email, active)
  \/ \E r \in DOMAIN referees, email \in RefereeEmails, active \in BOOLEAN :
       RefereeUpdateView_form_valid(r, email, active)
  \/ \E r \in DOMAIN referees : RefereeDeleteView_delete(r)
  \/ \E r \in DOMAIN referees, email \in {Null, Some("")} \cup {Some(e) : e \in RefereeEmails},
        phone \in {Null, Some("+60123456789")} :
       Referee_update_contact(r, email, phone)
  \/ \E r \in DOMAIN referees, email \in RefereeEmails, active \in BOOLEAN :
       RefereeAdmin_change(r, email, active)
  \/ \E u \in Users, r \in DOMAIN referees : RefereeAdmin_delete(u, r)

SpecReferees == Init /\ [][NextReferees]_vars

(* ------------------- answer validation (C16..C19) --------------------- *)
\* Python values handed to validate_answer: None, a str (its characters),
\* a list of str, an int
PyNone == [kind |-> "none", val |-> <<>>]
PyStr(chars) == [kind |-> "str", val |-> chars]
PyList(items) == [kind |-> "list", val |-> items]
PyInt(n) == [kind |-> "int", val |-> <<n>>]

\* bool(value)
PyTruthy(v) ==
  CASE v.kind = "none" -> FALSE
    [] v.kind = "int"  -> v.val[1] # 0
    [] OTHER           -> v.val # <<>>

\* the characters of a str joined into one string
RECURSIVE Join(_)
Join(chars) == IF chars = <<>> THEN "" ELSE Head(chars) \o Join(Tail(chars))

Whitespace == {" ", "\t", "\n"}
Digits == <<"0", "1", "2", "3", "4", "5", "6", "7", "8", "9">>
IsDigit(c) == \E i \in 1..10 : Digits[i] = c
DigitValue(c) == (CHOOSE i \in 1..10 : Digits[i] = c) - 1

\* str.strip()
RECURSIVE LStrip(_)
LStrip(chars) ==
  IF chars # <<>> /\ Head(chars) \in Whitespace THEN LStrip(Tail(chars)) ELSE chars
RECURSIVE RStrip(_)
RStrip(chars) ==
  IF chars # <<>> /\ chars[Len(chars)] \in Whitespace
  THEN RStrip(SubSeq(chars, 1, Len(chars) - 1)) ELSE chars
StripChars(chars) == RStrip(LStrip(chars))

\* the value of a run of decimal digits
RECURSIVE DecimalValue(_)
DecimalValue(ds) ==
  IF ds = <<>> THEN 0
  ELSE 10 * DecimalValue(SubSeq(ds, 1, Len(ds) - 1)) + DigitValue(ds[Len(ds)])

\* int(value): Some(n), or Null where Python raises ValueError / TypeError
PyIntOf(v) ==
  CASE v.kind = "int" -> Some(v.val[1])
    [] v.kind = "str" ->
         LET s == StripChars(v.val)
             signed == s # <<>> /\ Head(s) \in {"+", "-"}
             ds == IF signed THEN Tail(s) ELSE s
         IN IF ds # <<>> /\ \A i \in 1..Len(ds) : IsDigit(ds[i])
            THEN Some(IF signed /\ Head(s) = "-" THEN 0 - DecimalValue(ds)
                      ELSE DecimalValue(ds))
            ELSE Null
    [] OTHER -> Null

\* what validate_answer hands back: (is_valid, message), or an exception
Returns(valid, message) == [raised |-> FALSE, valid |-> valid, message |-> message]
Raises(exception) == [raised |-> TRUE, valid |-> FALSE, message |-> exception]


\* Question.get_choices_list: self.choices when it is a list, else []
Question_get_choices_list(row) ==
  IF row.choices.kind = "list" THEN row.choices.items ELSE <<>>

\* `value in seq` for a str or list value and the str elements of a list
InList(v, items) ==
  v.kind = "str" /\ \E i \in 1..Len(items) : items[i] = Join(v.val)

\* Question._validate_text_answer
Question__validate_text_answer(row, answer) ==
  IF row.is_required /\ answer.kind # "str" THEN Raises("AttributeError")
  ELSE IF row.is_required /\ StripChars(answer.val) = <<>>
  THEN Returns(FALSE, "This field is required")
  ELSE IF row.max_length # Null /\ row.max_length[1] # 0
  THEN IF answer.kind \in {"none", "int"} THEN Raises("TypeError")
       ELSE IF Len(answer.val) > row.max_length[1]
       THEN Returns(FALSE, "Answer must be " \o ToString(row.max_length[1])
                             \o " characters or less")
       ELSE Returns(TRUE, "")
  ELSE Returns(TRUE, "")

\* a single-choice validation that reads `not answer` as `answer is None`
Question__validate_single_choice_answer_NoneOnly(row, answer) ==
  IF row.is_required /\ answer.kind = "none"
  THEN Returns(FALSE, "This field is required")
  ELSE IF PyTruthy(answer) /\ ~InList(answer, Question_get_choices_list(row))
  THEN Returns(FALSE, "Invalid option selected")
  ELSE Returns(TRUE, "")

\* Question._validate_single_choice_answer
Question__validate_single_choice_answer(row, answer) ==
  IF row.is_required /\ ~PyTruthy(answer)
  THEN Returns(FALSE, "This field is required")
  ELSE IF PyTruthy(answer) /\ ~InList(answer, Question_get_choices_list(row))
  THEN Returns(FALSE, "Invalid option selected")
  ELSE Returns(TRUE, "")

\* a multiple-choice validation that is content with one configured choice
Question__validate_multiple_choice_answer_Any(row, answer) ==
  IF row.is_required /\ ~PyTruthy(answer)
  THEN Returns(FALSE, "This field is required")
  ELSE IF answer.kind \in {"none", "int"} THEN Raises("TypeError")
  ELSE LET selected == IF answer.kind = "str" THEN <<answer.val>> ELSE answer.val
       IN IF \A i \in 1..Len(selected) :
               ~InList(PyStr(selected[i]), Question_get_choices_list(row))
          THEN Returns(FALSE, "Invalid option selected")
          ELSE Returns(TRUE, "")

\* Question._validate_multiple_choice_answer: a str is wrapped in a list, then
\* every element is looked up in the choices
Question__validate_multiple_choice_answer(row, answer) ==
  IF row.is_required /\ ~PyTruthy(answer)
  THEN Returns(FALSE, "This field is required")
  ELSE IF answer.kind \in {"none", "int"} THEN Raises("TypeError")
  ELSE LET selected == IF answer.kind = "str" THEN <<answer.val>> ELSE answer.val
       IN IF \E i \in 1..Len(selected) :
               ~InList(PyStr(selected[i]), Question_get_choices_list(row))
          THEN Returns(FALSE, "Invalid option selected")
          ELSE Returns(TRUE, "")

\* a rating validation without the lower limit
Question__validate_rating_answer_NoLowerLimit(row, answer) ==
  IF row.is_required /\ answer.kind = "none"
  THEN Returns(FALSE, "This field is required")
  ELSE IF PyIntOf(answer) = Null THEN Returns(FALSE, "Invalid rating value")
  ELSE IF PyIntOf(answer)[1] > row.rating_scale
  THEN Returns(FALSE, "Rating must be between 1 and " \o ToString(row.rating_scale))
  ELSE Returns(TRUE, "")

\* Question._validate_rating_answer
Question__validate_rating_answer(row, answer) ==
  IF row.is_required /\ answer.kind = "none"
  THEN Returns(FALSE, "This field is required")
  ELSE IF PyIntOf(answer) = Null THEN Returns(FALSE, "Invalid rating value")
  ELSE IF PyIntOf(answer)[1] < 1 \/ PyIntOf(answer)[1] > row.rating_scale
  THEN Returns(FALSE, "Rating must be between 1 and " \o ToString(row.rating_scale))
  ELSE Returns(TRUE, "")

\* Question._validate_email_answer
Question__validate_email_answer(row, answer) ==
  IF row.is_required /\ answer.kind # "str" THEN Raises("AttributeError")
  ELSE IF row.is_required /\ StripChars(answer.val) = <<>>
  THEN Returns(FALSE, "This field is required")
  ELSE IF PyTruthy(answer) /\ answer.kind = "int" THEN Raises("TypeError")
  ELSE IF PyTruthy(answer) /\ ~(\E i \in 1..Len(answer.val) :
                                  answer.val[i] = (IF answer.kind = "str" THEN "@" ELSE <<"@">>))
  THEN Returns(FALSE, "Please enter a valid email address")
  ELSE Returns(TRUE, "")

\* Question._validate_phone_answer
Question__validate_phone_answer(row, answer) ==
  IF row.is_required /\ answer.kind # "str" THEN Raises("AttributeError")
  ELSE IF row.is_required /\ StripChars(answer.val) = <<>>
  THEN Returns(FALSE, "This field is required")
  ELSE IF PyTruthy(answer) /\ answer.kind = "int" THEN Raises("TypeError")
  ELSE IF PyTruthy(answer) /\ ~(\E i \in 1..Len(answer.val) :
            IF answer.kind = "str" THEN IsDigit(answer.val[i])
            ELSE /\ answer.val[i] # <<>>
                 /\ \A j \in 1..Len(answer.val[i]) : IsDigit(answer.val[i][j]))
  THEN Returns(FALSE, "Please enter a valid phone number")
  ELSE Returns(TRUE, "")

\* Question._validate_date_answer
Question__validate_date_answer(row, answer) ==
  IF row.is_required /\ ~PyTruthy(answer)
  THEN Returns(FALSE, "This field is required")
  ELSE Returns(TRUE, "")

\* Question.validate_answer: dispatch on question_type
Question_validate_answer(row, answer) ==
  CASE row.question_type \in {"TEXT", "TEXTAREA"} -> Question__validate_text_answer(row, answer)
    [] row.question_type \in {"SELECT", "RADIO"} ->
         Question__validate_single_choice_answer(row, answer)
    [] row.question_type = "CHECKBOX" -> Question__validate_multiple_choice_answer(row, answer)
    [] row.question_type = "RATING" -> Question__validate_rating_answer(row, answer)
    [] row.question_type = "EMAIL" -> Question__validate_email_answer(row, answer)
    [] row.question_type = "PHONE" -> Question__validate_phone_answer(row, answer)
    [] row.question_type = "DATE" -> Question__validate_date_answer(row, answer)
    [] OTHER -> Returns(TRUE, "")


\* the outcome of a call, as the shell prints it
Show(result) ==
  IF result.raised THEN result.message \o " raised"
  ELSE "(" \o (IF result.valid THEN "True" ELSE "False") \o ", '" \o result.message \o "')"

\* question.validate_answer(answer) called on stored question q
Question_validate_answer_call(q, answer) ==
  /\ q \in DOMAIN questions
  /\ outcome' = Show(Question_validate_answer(questions[q], answer))
  /\ UNCHANGED <<templates, questions, referees, forms, responses, answers, seq, now>>

ValidatedTemplates == 1  \* Template rows ever inserted while answers are validated
AnsweredForms == 1       \* Form rows ever inserted while stored answers are validated
ValidatedQuestions == 2  \* Question rows ever inserted while answers are validated
ScaleSmall == 3          \* rating_scale of the short rating question
ScaleLarge == 10         \* rating_scale of the long rating question

\* question_data handed to Template.add_question: every type, required or not
ValidatedQuestionData ==
  {[question_text |-> "Question", question_type |-> type, is_required |-> req,
    choices |-> JList(<<"Yes", "No">>), rating_scale |-> ScaleSmall,
    max_length |-> Some(2)] : type \in QuestionType, req \in BOOLEAN}
  \cup {[question_text |-> "Question", question_type |-> "RATING", is_required |-> TRUE,
         rating_scale |-> ScaleLarge]}

Chars1 == {<<>>, <<" ">>, <<" ", "\t">>}
\* answers handed to validate_answer
AnswerInputs ==
  {PyNone, PyList(<<>>), PyList(<<<<"Yes">>>>), PyList(<<<<"Yes">>, <<"No">>>>),
   PyList(<<<<"Yes">>, <<"M">>>>), PyInt(0), PyInt(3), PyInt(4), PyInt(10), PyInt(11)}
  \cup {PyStr(s) : s \in Chars1 \cup
          {<<"Y", "e", "s">>, <<"N", "o">>, <<"Y">>, <<"M">>, <<"a", "@", "b">>,
           <<"0">>, <<"1">>, <<"3">>, <<" ", "3", " ">>, <<"+", "2">>, <<"-", "1">>,
           <<"4">>, <<"1", "0">>, <<"1", "1">>, <<"3", ".", "5">>, <<"3", "a">>}}

NextValidation ==
  \/ /\ seq.template <= ValidatedTemplates
     /\ TemplateCreateView_form_valid("hr", TitleRef, "", "", TRUE, <<FormText>>)
  \/ \E t \in DOMAIN templates, data \in ValidatedQuestionData :
       /\ seq.question <= ValidatedQuestions
       /\ Template_add_question(t, data)
  \/ \E t \in DOMAIN templates, q \in DOMAIN questions : Template_remove_question(t, q)
  \/ \E q \in DOMAIN questions, answer \in AnswerInputs :
       Question_validate_answer_call(q, answer)

SpecValidation == Init /\ [][NextValidation]_vars


(* ------------------- stored answers (C19) ----------------------------- *)
\* the Questions that the loop over template.get_questions() matches with
\* the answer's question_id
Answer_matching_questions(a) ==
  {q \in QuestionsOfTemplate(questions,
                             forms[responses[answers[a].response].form].template) :
     q = answers[a].question_id}

\* self.response.form.template can be followed without DoesNotExist
Answer_template_reachable(a) ==
  /\ answers[a].response \in DOMAIN responses
  /\ responses[answers[a].response].form \in DOMAIN forms
  /\ forms[responses[answers[a].response].form].template \in DOMAIN templates

\* Answer.get_question_text: the question's text, else "Question <id>"
Answer_get_question_text_result(a) ==
  IF Answer_template_reachable(a) /\ Answer_matching_questions(a) # {}
  THEN questions[CHOOSE q \in Answer_matching_questions(a) : TRUE].question_text
  ELSE "Question " \o ToString(answers[a].question_id)

\* an Answer.validate that lets a failed lookup escape
Answer_validate_result_NoFallback(a) ==
  IF ~Answer_template_reachable(a) \/ Answer_matching_questions(a) = {}
  THEN Raises("DoesNotExist")
  ELSE Question_validate_answer(
         questions[CHOOSE q \in Answer_matching_questions(a) : TRUE],
         PyStr(answers[a].answer_value))

\* Answer.validate: the question's validate_answer(answer_value); (False,
\* "Question not found") without a match; (False, str(e)) on any exception
Answer_validate_result(a) ==
  IF ~Answer_template_reachable(a) THEN Returns(FALSE, "DoesNotExist")
  ELSE IF Answer_matching_questions(a) = {} THEN Returns(FALSE, "Question not found")
  ELSE LET res == Question_validate_answer(
                    questions[CHOOSE q \in Answer_matching_questions(a) : TRUE],
                    PyStr(answers[a].answer_value))
       IN IF res.raised THEN Returns(FALSE, res.message) ELSE res

Answer_get_question_text(a) ==
  /\ a \in DOMAIN answers
  /\ outcome' = Answer_get_question_text_result(a)
  /\ UNCHANGED <<templates, questions, referees, forms, responses, answers, seq, now>>

Answer_validate(a) ==
  /\ a \in DOMAIN answers
  /\ outcome' = Show(Answer_validate_result(a))
  /\ UNCHANGED <<templates, questions, referees, forms, responses, answers, seq, now>>

\* question_data of the questions added next to the template's text question
AnsweredQuestionData ==
  {[question_text |-> "Rate the candidate", question_type |-> "RATING",
    rating_scale |-> ScaleSmall],
   [question_text |-> "Would you rehire?", question_type |-> "SELECT",
    is_required |-> FALSE, choices |-> JList(<<"Yes", "No">>)]}
\* answer_value posted by the referee
AnswerValues == {<<>>, <<"3">>, <<"4">>}

NextAnswers ==
  \/ /\ seq.template <= ValidatedTemplates
     /\ TemplateCreateView_form_valid("hr", TitleRef, "", "", TRUE, <<FormText>>)
  \/ \E t \in DOMAIN templates, data \in AnsweredQuestionData :
       /\ seq.question <= ValidatedQuestions
       /\ Template_add_question(t, data)
  \/ \E t \in DOMAIN templates, q \in DOMAIN questions : Template_remove_question(t, q)
  \/ \E email \in Emails :
       /\ seq.referee <= AssignedReferees
       /\ RefereeCreateView_form_valid(email, TRUE)
  \/ \E t \in DOMAIN templates, r \in DOMAIN referees, tok \in Form_generate_unique_token :
       /\ seq.form <= AnsweredForms
       /\ FormAdmin_add(t, r, PENDING, tok)
  \/ \E f \in DOMAIN forms, value \in AnswerValues, tok \in Form_generate_unique_token :
       SubmitForm(f, OrderedQuestions(questions,
                       QuestionsOfTemplate(questions, forms[f].template)), value, tok)
  \/ \E a \in DOMAIN answers : Answer_validate(a)
  \/ \E a \in DOMAIN answers : Answer_get_question_text(a)

SpecAnswers == Init /\ [][NextAnswers]_vars

(* --------------- question order and options (C22-C24) ----------------- *)
\* list.append(option) / list.remove(option) on the items of a JSON list
\* `option in list`
HasOption(items, option) == \E i \in 1..Len(items) : items[i] = option
ListAppend(items, option) == items \o <<option>>
ListRemove(items, option) ==
  LET i == CHOOSE k \in 1..Len(items) : items[k] = option /\ \A j \in 1..(k - 1) : items[j] # option
  IN [k \in 1..(Len(items) - 1) |-> IF k < i THEN items[k] ELSE items[k + 1]]

\* add_option on copies that share one list: every question with the same
\* text gets the option
Question_add_option_Shared(q, option) ==
  /\ q \in DOMAIN questions
  /\ questions' = [o \in DOMAIN questions |->
                     IF questions[o].question_text = questions[q].question_text
                        /\ questions[o].choices.kind = "list"
                     THEN [questions[o] EXCEPT !.choices = JList(ListAppend(@.items, option))]
                     ELSE questions[o]]
  /\ outcome' = "ok"
  /\ UNCHANGED <<templates, referees, forms, responses, answers, seq, now>>

\* Question.add_option: for the choice types, an option not yet in the list is
\* appended and the question saved. On choices that are not a list nothing is
\* saved: either the membership test stops the call or .append raises
Question_add_option(q, option) ==
  /\ q \in DOMAIN questions
  /\ LET row == questions[q]
     IN IF row.question_type \in ChoiceTypes
        THEN IF row.choices.kind = "list"
             THEN /\ questions' =
                       IF ~HasOption(row.choices.items, option)
                       THEN Question_save(questions, q,
                              [row EXCEPT !.choices = JList(ListAppend(@.items, option))])
                       ELSE questions
                  /\ outcome' = "ok"
             ELSE /\ questions' = questions
                  /\ outcome' \in {"ok", "AttributeError"}
        ELSE /\ questions' = questions
             /\ outcome' = "ok"
  /\ UNCHANGED <<templates, referees, forms, responses, answers, seq, now>>

\* Question.remove_option: for the choice types, the first occurrence of a
\* listed option is removed and the question saved
Question_remove_option(q, option) ==
  /\ q \in DOMAIN questions
  /\ LET row == questions[q]
     IN IF row.question_type \in ChoiceTypes
        THEN IF row.choices.kind = "list"
             THEN /\ questions' =
                       IF HasOption(row.choices.items, option)
                       THEN Question_save(questions, q,
                              [row EXCEPT !.choices = JList(ListRemove(@.items, option))])
                       ELSE questions
                  /\ outcome' = "ok"
             ELSE /\ questions' = questions
                  /\ outcome' \in {"ok", "AttributeError"}
        ELSE /\ questions' = questions
             /\ outcome' = "ok"
  /\ UNCHANGED <<templates, referees, forms, responses, answers, seq, now>>

\* QuestionAdmin change view with the order field edited (PositiveIntegerField:
\* 0 is accepted by the form)
QuestionAdmin_change_order(q, order) ==
  /\ q \in DOMAIN questions
  /\ questions' = Question_save(questions, q, [questions[q] EXCEPT !.order = order])
  /\ outcome' = "ok"
  /\ UNCHANGED <<templates, referees, forms, responses, answers, seq, now>>

CreatedTemplates == 1
MaxOrder == 4
ExplicitOrder == 3
\* question_data handed to Template.add_question: without 'order', with
\* order 0 and with an order of the caller's
OrderData ==
  LET data == [question_text |-> "Eligible for rehire?", question_type |-> "SELECT",
               choices |-> JList(<<"Yes">>)]
  IN {data} \cup {[k \in DOMAIN data \cup {"order"} |-> IF k = "order" THEN o ELSE data[k]] :
                    o \in {0, ExplicitOrder}}
\* no stored order has reached the cap of the model
OrdersBelowCap == \A q \in DOMAIN questions : questions[q].order < MaxOrder

NextQuestions ==
  \/ /\ seq.template <= CreatedTemplates
     /\ TemplateCreateView_form_valid("hr", TitleRef, "About the applicant", "Be candid",
                                      TRUE, <<FormRadio>>)
  \/ \E t \in DOMAIN templates, data \in OrderData :
       OrdersBelowCap /\ Template_add_question(t, data)
  \/ \E t \in DOMAIN templates, q \in DOMAIN questions : Template_remove_question(t, q)
  \/ \E q \in DOMAIN questions, o \in {0, ExplicitOrder} :
       OrdersBelowCap /\ QuestionAdmin_change_order(q, o)
  \/ \E q \in DOMAIN questions : Question_add_option(q, "Maybe")
  \/ \E q \in DOMAIN questions : Question_remove_option(q, "Yes")
  \/ \E t \in DOMAIN templates : Template_duplicate(t, Null, Null)

SpecQuestions == Init /\ [][NextQuestions]_vars

(* ====================================================================== *)
(* Properties                                                             *)
(* ====================================================================== *)

\* C1: in every reachable state no two saved Forms hold the same
\* unique_token, and every saved Form holds a generated token
C1_TokenUnique ==
  /\ \A f \in DOMAIN forms : forms[f].unique_token \in Tokens
  /\ \A f, g \in DOMAIN forms : f # g => forms[f].unique_token # forms[g].unique_token

\* two forms are stored, each with its own token
C1_Witness ==
  \E f, g \in DOMAIN forms :
    f # g /\ forms[f].unique_token \in Tokens /\ forms[g].unique_token \in Tokens

\* C2: a stored Form's unique_token never changes: every step keeps the token
\* of every form that stays stored
C2_TokenImmutable ==
  [][\A f \in DOMAIN forms \cap DOMAIN forms' :
       forms'[f].unique_token = forms[f].unique_token]_vars

\* a form that was saved again after its first save (edited in the admin back
\* to PENDING after mark_completed stamped it)
C2_Witness ==
  \E f \in DOMAIN forms :
    /\ forms[f].status = PENDING
    /\ forms[f].submitted_at # Null
    /\ forms[f].unique_token \in Tokens

\* C3: every stored Response belongs to a Form whose status is COMPLETED
C3_ResponseOnlyForCompleted ==
  \A r \in DOMAIN responses : forms[responses[r].form].status = COMPLETED

\* C4: every stored Answer's question_id is the id of a stored Question of the
\* template of the answer's response's form
C4_AnswerQuestionInTemplate ==
  \A a \in DOMAIN answers :
    answers[a].question_id \in
      QuestionsOfTemplate(questions, forms[responses[answers[a].response].form].template)

\* a step that is an admin deletion by a superuser
SuperuserDelete ==
  \/ \E r \in DOMAIN responses : ResponseAdmin_delete("root", r)
  \/ \E a \in DOMAIN answers : AnswerAdmin_delete("root", a)
  \/ \E f \in DOMAIN forms : FormAdmin_delete("root", f)
  \/ \E r \in DOMAIN referees : RefereeAdmin_delete("root", r)

\* C5: stored Responses and Answers stay stored, with unchanged field values,
\* across every operation other than an admin deletion by a superuser
C5_AuditRecordsImmutable ==
  [][~SuperuserDelete =>
       /\ \A r \in DOMAIN responses : r \in DOMAIN responses' /\ responses'[r] = responses[r]
       /\ \A a \in DOMAIN answers : a \in DOMAIN answers' /\ answers'[a] = answers[a]]_vars

\* C6: a step of Form.mark_completed on a stored form leaves it COMPLETED with
\* submitted_at the current time, and keeps its template, referee,
\* unique_token and created_at
C6_MarkCompleted ==
  [][\A f \in DOMAIN forms, tok \in Form_generate_unique_token :
       Form_mark_completed(f, tok) =>
         /\ f \in DOMAIN forms'
         /\ forms'[f].status = COMPLETED
         /\ forms'[f].submitted_at = Some(now)
         /\ forms'[f].template = forms[f].template
         /\ forms'[f].referee = forms[f].referee
         /\ forms'[f].unique_token = forms[f].unique_token
         /\ forms'[f].created_at = forms[f].created_at]_vars

\* a form completed by mark_completed alone (no Response), later than its creation
C6_Witness ==
  \E f \in DOMAIN forms :
    /\ forms[f].status = COMPLETED
    /\ forms[f].submitted_at = Some(now)
    /\ forms[f].created_at < now
    /\ Response_form_unique_ok(f)

\* C7: every Form has at most one Response
C7_OneResponsePerForm ==
  \A r1, r2 \in DOMAIN responses :
    responses[r1].form = responses[r2].form => r1 = r2

\* a second submission of a form that has a Response was rejected
C7_Witness ==
  /\ outcome = "IntegrityError: response"
  /\ \E r \in DOMAIN responses : forms[responses[r].form].status = PENDING

\* C8: no two stored Answers of one Response have the same question_id
C8_OneAnswerPerQuestion ==
  \A a1, a2 \in DOMAIN answers :
    (answers[a1].response = answers[a2].response
       /\ answers[a1].question_id = answers[a2].question_id) => a1 = a2

\* a submission that posted a question id twice was rejected; a stored
\* response has its answer
C8_Witness ==
  /\ outcome = "IntegrityError: answer"
  /\ answers # EmptyTable

\* the ten fields Question.duplicate copies
SameQuestionFields(a, b) ==
  /\ a.question_text = b.question_text
  /\ a.question_type = b.question_type
  /\ a.is_required = b.is_required
  /\ a.order = b.order
  /\ a.choices = b.choices
  /\ a.rating_scale = b.rating_scale
  /\ a.rating_labels = b.rating_labels
  /\ a.max_length = b.max_length
  /\ a.placeholder = b.placeholder
  /\ a.help_text = b.help_text

\* C9: a step of Template.duplicate leaves a new Template with as many
\* Questions as the original, a copy with identical fields for each original
\* Question, the original's description and instructions, and the title
\* new_title, or "<original title> (Copy)" when new_title is empty
C9_DuplicateClones ==
  [][\A t \in DOMAIN templates, nt \in NewTitles, nu \in NewUsers :
       Template_duplicate(t, nt, nu) =>
         LET new == seq.template
             orig == QuestionsOfTemplate(questions, t)
             copies == QuestionsOfTemplate(questions', new)
         IN /\ new \in DOMAIN templates'
            /\ Cardinality(copies) = Cardinality(orig)
            /\ \A q \in orig : \E c \in copies :
                 SameQuestionFields(questions[q], questions'[c])
            /\ templates'[new].description = templates[t].description
            /\ templates'[new].instructions = templates[t].instructions
            /\ templates'[new].title =
                 IF nt = Null \/ nt = Some(<<>>)
                 THEN templates[t].title \o CopySuffix ELSE nt[1]]_vars

\* C10: the Template that Template.duplicate or TemplateDuplicateView.post
\* returns is inactive, and created by new_user (the requesting user) when
\* given, otherwise by the original's creator
C10_DuplicateInactive ==
  [][/\ \A t \in DOMAIN templates, nt \in NewTitles, nu \in NewUsers :
          (Template_duplicate(t, nt, nu) /\ outcome' = "ok") =>
            /\ templates'[seq.template].is_active = FALSE
            /\ templates'[seq.template].created_by =
                 IF nu = Null THEN templates[t].created_by ELSE nu[1]
     /\ \A u \in Users, t \in DOMAIN templates, nt \in NewTitles :
          (TemplateDuplicateView_post(u, t, nt) /\ outcome' = "ok") =>
            /\ templates'[seq.template].is_active = FALSE
            /\ templates'[seq.template].created_by = u]_vars

\* an inactive copy of an active original, made by another user
C10_Witness ==
  \E t, c \in DOMAIN templates :
    /\ templates[t].is_active
    /\ ~templates[c].is_active
    /\ templates[c].title = templates[t].title \o CopySuffix
    /\ templates[c].created_by # templates[t].created_by
    /\ QuestionsOfTemplate(questions, c) # {}

\* C11: no two active Templates have titles that are equal ignoring case
C11_ActiveTitlesUnique ==
  \A a, b \in DOMAIN templates :
    (a # b /\ templates[a].is_active /\ templates[b].is_active)
      => Lower(templates[a].title) # Lower(templates[b].title)


\* C12: no two active Referees have the same email
C12_ActiveEmailsUnique ==
  \A a, b \in DOMAIN referees :
    (a # b /\ referees[a].is_active /\ referees[b].is_active)
      => referees[a].email # referees[b].email


\* C13: a step of RefereeDeleteView.delete keeps the Referee row, with
\* is_active = False and every other field unchanged, and keeps every Form of
\* that referee, its Response and its Answers, unchanged
C13_RefereeSoftDelete ==
  [][\A r \in DOMAIN referees :
       RefereeDeleteView_delete(r) =>
         /\ r \in DOMAIN referees'
         /\ referees'[r] = [referees[r] EXCEPT !.is_active = FALSE]
         /\ \A f \in FormsOfReferees(forms, {r}) :
              /\ f \in DOMAIN forms' /\ forms'[f] = forms[f]
              /\ \A p \in ResponsesOfForms(responses, {f}) :
                   /\ p \in DOMAIN responses' /\ responses'[p] = responses[p]
                   /\ \A a \in AnswersOfResponses(answers, {p}) :
                        a \in DOMAIN answers' /\ answers'[a] = answers[a]]_vars

\* a deactivated referee whose submitted form, Response and Answer are stored
C13_Witness ==
  \E r \in DOMAIN referees, f \in DOMAIN forms, p \in DOMAIN responses, a \in DOMAIN answers :
    /\ ~referees[r].is_active
    /\ forms[f].referee = r
    /\ responses[p].form = f
    /\ answers[a].response = p


\* C14: a step of a template-deletion operation (Template admin delete or
\* TemplateDeleteView) on a Template with at least one assigned Form keeps
\* the Template, its Questions and its Forms
C14_AssignedTemplateKept ==
  [][\A t \in DOMAIN templates :
       ((TemplateAdmin_delete(t) \/ TemplateDeleteView_delete(t))
          /\ FormsOfTemplates(forms, {t}) # {}) =>
         /\ t \in DOMAIN templates'
         /\ QuestionsOfTemplate(questions, t) \subseteq DOMAIN questions'
         /\ FormsOfTemplates(forms, {t}) \subseteq DOMAIN forms']_vars

\* C15: no step of the application removes a Form whose status is COMPLETED
C15_CompletedFormKept ==
  [][\A f \in DOMAIN forms :
       forms[f].status = COMPLETED => f \in DOMAIN forms']_vars


\* the error messages validate_answer can hand back for question `row`
ErrorMessages(row) ==
  {"This field is required", "Invalid option selected", "Invalid rating value",
   "Rating must be between 1 and " \o ToString(row.rating_scale),
   "Please enter a valid email address", "Please enter a valid phone number"}
  \cup (IF row.max_length = Null THEN {}
        ELSE {"Answer must be " \o ToString(row.max_length[1]) \o " characters or less"})

\* an empty answer for a question of the given type
EmptyAnswer(type, answer) ==
  \/ answer = PyStr(<<>>)
  \/ /\ type \in {"TEXT", "TEXTAREA", "EMAIL", "PHONE"}
     /\ answer.kind = "str"
     /\ \A i \in 1..Len(answer.val) : answer.val[i] \in Whitespace
  \/ type = "CHECKBOX" /\ answer = PyList(<<>>)

\* C16: validate_answer on an empty answer to a required Question of any
\* type returns (False, message) with a non-empty message
C16_RequiredRejectsEmpty ==
  [][\A q \in DOMAIN questions, answer \in AnswerInputs :
       (/\ questions[q].is_required
        /\ EmptyAnswer(questions[q].question_type, answer)
        /\ Question_validate_answer_call(q, answer)) =>
         \E m \in ErrorMessages(questions[q]) : outcome' = Show(Returns(FALSE, m))]_vars

\* an empty answer to a required CHECKBOX question was rejected
C16_Witness ==
  /\ DOMAIN questions # {}
  /\ \A q \in DOMAIN questions :
       questions[q].is_required /\ questions[q].question_type = "CHECKBOX"
  /\ outcome = Show(Returns(FALSE, "This field is required"))

\* the str elements an answer selects: the str itself, or the elements of a list
Selected(answer) ==
  IF answer.kind = "str" THEN {Join(answer.val)}
  ELSE {Join(answer.val[i]) : i \in 1..Len(answer.val)}

\* the elements of the question's choices list
ChoiceSet(row) ==
  IF row.choices.kind = "list"
  THEN {row.choices.items[i] : i \in 1..Len(row.choices.items)} ELSE {}

\* C17: for SELECT and RADIO a non-empty answer is valid iff it is an element
\* of the choices list; for CHECKBOX a non-empty list or str is valid iff
\* every selected element is in the choices list; otherwise the result is
\* (False, "Invalid option selected")
C17_OnlyConfiguredChoices ==
  [][\A q \in DOMAIN questions, answer \in AnswerInputs :
       (/\ answer.kind \in {"str", "list"}
        /\ answer.val # <<>>
        /\ questions[q].question_type \in ChoiceTypes
        /\ Question_validate_answer_call(q, answer)) =>
         LET ok == IF questions[q].question_type = "CHECKBOX"
                   THEN Selected(answer) \subseteq ChoiceSet(questions[q])
                   ELSE answer.kind = "str" /\ Join(answer.val) \in ChoiceSet(questions[q])
         IN outcome' = IF ok THEN Show(Returns(TRUE, ""))
                       ELSE Show(Returns(FALSE, "Invalid option selected"))]_vars

\* an answer outside the choices of a CHECKBOX question was rejected
C17_Witness ==
  /\ DOMAIN questions # {}
  /\ \A q \in DOMAIN questions :
       /\ questions[q].question_type = "CHECKBOX"
       /\ ChoiceSet(questions[q]) = {"Yes", "No"}
  /\ outcome = Show(Returns(FALSE, "Invalid option selected"))


\* what the rating rule asks for: valid exactly for an integer within
\* 1..rating_scale, the range message for an integer outside it, the
\* invalid-value message for anything that is not an integer
RatingRule(row, answer) ==
  IF PyIntOf(answer) = Null THEN Returns(FALSE, "Invalid rating value")
  ELSE IF 1 <= PyIntOf(answer)[1] /\ PyIntOf(answer)[1] <= row.rating_scale
  THEN Returns(TRUE, "")
  ELSE Returns(FALSE, "Rating must be between 1 and " \o ToString(row.rating_scale))

\* C18 as stated: validate_answer on a RATING question follows the rating
\* rule for every answer
C18_RatingRuleAlways ==
  [][\A q \in DOMAIN questions, answer \in AnswerInputs :
       (/\ questions[q].question_type = "RATING"
        /\ Question_validate_answer_call(q, answer)) =>
         outcome' = Show(RatingRule(questions[q], answer))]_vars

\* C18: validate_answer on a RATING question follows the rating rule, except
\* that None for a required question gives (False, "This field is required")
C18_RatingRule ==
  [][\A q \in DOMAIN questions, answer \in AnswerInputs :
       (/\ questions[q].question_type = "RATING"
        /\ Question_validate_answer_call(q, answer)) =>
         outcome' = IF questions[q].is_required /\ answer = PyNone
                    THEN Show(Returns(FALSE, "This field is required"))
                    ELSE Show(RatingRule(questions[q], answer))]_vars

\* a rating above the scale of a RATING question was rejected
C18_Witness ==
  /\ DOMAIN questions # {}
  /\ \A q \in DOMAIN questions :
       questions[q].question_type = "RATING" /\ questions[q].rating_scale = ScaleSmall
  /\ outcome = Show(Returns(FALSE, "Rating must be between 1 and " \o ToString(ScaleSmall)))


\* C19: a step of Answer.validate gives (False, "Question not found") when no
\* Question of the answer's form's template has the answer's question_id, and
\* otherwise exactly that question's validate_answer(answer_value); a step of
\* Answer.get_question_text gives "Question <question_id>" or the question's
\* question_text; neither raises (each step ends with a returned value)
C19_LookupFallback ==
  [][\A a \in DOMAIN answers :
       LET t == forms[responses[answers[a].response].form].template
           found == /\ answers[a].question_id \in DOMAIN questions
                    /\ questions[answers[a].question_id].template = t
       IN /\ Answer_validate(a) =>
               outcome' = IF found
                          THEN Show(Question_validate_answer(
                                      questions[answers[a].question_id],
                                      PyStr(answers[a].answer_value)))
                          ELSE Show(Returns(FALSE, "Question not found"))
          /\ Answer_get_question_text(a) =>
               outcome' = IF found THEN questions[answers[a].question_id].question_text
                          ELSE "Question " \o ToString(answers[a].question_id)]_vars

\* validate was called on a stored answer whose question has been removed
C19_Witness ==
  /\ \E a \in DOMAIN answers : answers[a].question_id \notin DOMAIN questions
  /\ outcome = Show(Returns(FALSE, "Question not found"))


\* C20: a step of TemplateCreateView.form_valid or TemplateUpdateView.form_valid
\* whose question formset is invalid ends with form errors and leaves the
\* stored Templates and Questions exactly as they were
C20_AllOrNothing ==
  [][/\ \A title \in Titles, active \in BOOLEAN, qforms \in CreateFormSets :
          (/\ ~QuestionFormSet_is_valid(seq.template, qforms)
           /\ TemplateCreateView_form_valid("hr", title, "", "", active, qforms)) =>
            outcome' = "form errors" /\ templates' = templates /\ questions' = questions
     /\ \A t \in DOMAIN templates, title \in Titles, active \in BOOLEAN :
          \A qforms \in EditFormSets(t) :
            (/\ ~QuestionFormSet_is_valid(t, qforms)
             /\ TemplateUpdateView_form_valid(t, title, "", "", active, qforms)) =>
              outcome' = "form errors" /\ templates' = templates /\ questions' = questions]_vars


\* C21: a step of TemplateDuplicateView.post in which the duplication fails
\* leaves the stored Templates and Questions exactly as they were (no new
\* Template, no new Question, the original unchanged) and ends with the error
\* redirect to the original's detail page
C21_DuplicateViewAtomic ==
  [][\A u \in Users, t \in DOMAIN templates, nt \in NewTitles :
       (/\ \E q \in QuestionsOfTemplate(questions, t) : Question_duplicate_raises(questions[q])
        /\ TemplateDuplicateView_post(u, t, nt)) =>
         /\ templates' = templates
         /\ questions' = questions
         /\ outcome' = "error: redirect to detail"]_vars

\* a failed duplication through the view: the only template has a question
\* that cannot be copied, after a question that can
C21_Witness ==
  /\ outcome = "error: redirect to detail"
  /\ Cardinality(DOMAIN templates) = 1
  /\ \E q1, q2 \in DOMAIN questions :
       /\ questions[q1].order < questions[q2].order
       /\ ~Question_duplicate_raises(questions[q1])
       /\ Question_duplicate_raises(questions[q2])


\* C22: Template.duplicate changes no stored Template and no stored Question
\* (the original keeps its fields, its set of Questions and their fields), and
\* add_option, remove_option or an edit on one Question changes the choices and
\* rating_labels of no other Question, so a copy and its original never follow
\* each other
C22_DuplicateIndependent ==
  [][/\ \A t \in DOMAIN templates :
          Template_duplicate(t, Null, Null) =>
            /\ \A o \in DOMAIN templates : o \in DOMAIN templates' /\ templates'[o] = templates[o]
            /\ \A q \in DOMAIN questions : q \in DOMAIN questions' /\ questions'[q] = questions[q]
            /\ QuestionsOfTemplate(questions', t) = QuestionsOfTemplate(questions, t)
     /\ \A q \in DOMAIN questions :
          (\/ Question_add_option(q, "Maybe")
           \/ Question_remove_option(q, "Yes")
           \/ \E o \in {0, ExplicitOrder} : QuestionAdmin_change_order(q, o)) =>
            \A o \in DOMAIN questions \ {q} :
              /\ o \in DOMAIN questions'
              /\ questions'[o].choices = questions[o].choices
              /\ questions'[o].rating_labels = questions[o].rating_labels]_vars

\* a question of the created template and its copy in the duplicate, after
\* add_option on one of them only
C22_Witness ==
  \E q1, q2 \in DOMAIN questions :
    /\ questions[q1].template # questions[q2].template
    /\ questions[q1].question_text = "Would you rehire?"
    /\ questions[q2].question_text = "Would you rehire?"
    /\ questions[q1].choices = JList(<<"Yes", "No">>)
    /\ questions[q2].choices = JList(<<"Yes", "No", "Maybe">>)


\* the orders of template t's stored questions
OrdersOf(t) == {questions[q].order : q \in QuestionsOfTemplate(questions, t)}
\* the order an auto-assignment gives in template t: 1 when the template has
\* no stored question, else the largest stored order + 1
AppendedOrder(t) == IF OrdersOf(t) = {} THEN 1 ELSE Max(OrdersOf(t)) + 1
\* Template.add_question numbers a question without 'order', or with order 0,
\* after all stored questions of the template and stores any other order as given
AddQuestionOrder ==
  \A t \in DOMAIN templates, data \in OrderData :
    Template_add_question(t, data) =>
      LET new == questions'[seq.question]
      IN IF "order" \notin DOMAIN data \/ data.order = 0
         THEN /\ new.order = AppendedOrder(t)
              /\ \A o \in OrdersOf(t) : new.order > o
         ELSE new.order = data.order

\* C23 as stated: a stored question saved with order 0 gets order 1 when the
\* template has no other question, else the largest order of the template + 1
C23_AutoOrderAmongOthers ==
  [][/\ AddQuestionOrder
     /\ \A q \in DOMAIN questions, o \in {0, ExplicitOrder} :
          QuestionAdmin_change_order(q, o) =>
            LET t == questions[q].template
            IN IF o = 0
               THEN questions'[q].order =
                      IF QuestionsOfTemplate(questions, t) \ {q} = {} THEN 1
                      ELSE AppendedOrder(t)
               ELSE questions'[q].order = o]_vars

\* C23: a question added without 'order', or saved with order 0, gets order 1
\* when the template has no stored question (the saved question itself counts
\* when it is already stored), else the largest stored order of the template
\* + 1, which is above every stored order of the template; any other order is
\* stored as given
C23_AutoOrder ==
  [][/\ AddQuestionOrder
     /\ \A q \in DOMAIN questions, o \in {0, ExplicitOrder} :
          QuestionAdmin_change_order(q, o) =>
            LET t == questions[q].template
            IN IF o = 0
               THEN /\ questions'[q].order = AppendedOrder(t)
                    /\ \A e \in OrdersOf(t) : questions'[q].order > e
               ELSE questions'[q].order = o]_vars

\* the only question ever created, stored with order 1, was saved again with
\* order 0 and is now second
C23_Witness ==
  /\ seq.question = 2
  /\ 1 \in DOMAIN questions
  /\ questions[1].order = 2

\* C24: every stored Question has order >= 1
C24_OrderPositive ==
  \A q \in DOMAIN questions :
    questions[q].template \in DOMAIN templates => questions[q].order >= 1

\* the only question ever created was given the order ExplicitOrder and then
\* saved with order 0: it is stored with the next order, not with 0
C24_Witness ==
  /\ seq.question = 2
  /\ 1 \in DOMAIN questions
  /\ questions[1].order = ExplicitOrder + 1


\* C25: in every state every Form is COMPLETED exactly when its submitted_at
\* is set
C25_StatusMatchesSubmittedAt ==
  \A f \in DOMAIN forms : forms[f].status = COMPLETED <=> forms[f].submitted_at # Null

\* a new Form starts PENDING
NewFormPending ==
  \A f \in DOMAIN forms' \ DOMAIN forms : forms'[f].status = PENDING
\* a COMPLETED Form that is kept stays COMPLETED
CompletedStays ==
  \A f \in DOMAIN forms \cap DOMAIN forms' :
    forms[f].status = COMPLETED => forms'[f].status = COMPLETED
\* a COMPLETED Form that is kept keeps its submitted_at
SubmittedAtKept ==
  \A f \in DOMAIN forms \cap DOMAIN forms' :
    forms[f].status = COMPLETED => forms'[f].submitted_at = forms[f].submitted_at

\* C26: every step creates Forms as PENDING only, and leaves the status and the
\* submitted_at of every COMPLETED Form as they were
C26_OneWayLifecycle ==
  [][NewFormPending /\ CompletedStays /\ SubmittedAtKept]_vars

====
